---- MODULE Spec2Model ----
(***************************************************************************)
(* A model of smart-error (src/index.js): the factory create(name, errors) *)
(* and the SmartError sub-class it returns -- constructor, per-code static *)
(* helpers, instance getters, toJSON, toString and toDetailedString.       *)
(***************************************************************************)
EXTENDS Integers, Sequences, FiniteSets, TLC

\* ------------------------------------------------------------------ bounds
MaxInstances == 2      \* instances constructed in one behaviour
MaxTableWrites == 2    \* writes to the errors table after create
MaxAssigns == 2        \* assignments to fields of _props

\* ------------------------------------------------------- JavaScript values
\* Every value is a record [t, s, n]: its kind, its text, its number / heap id.
V(t, s, n) == [t |-> t, s |-> s, n |-> n]
Undef == V("undefined", "", 0)
Null == V("null", "", 0)
StrV(s) == V("string", s, 0)
NumV(n) == V("number", "", n)
BoolV(b) == V("boolean", "", IF b THEN 1 ELSE 0)
ArrV == V("array", "", 0)            \* the empty array []
TableV == V("object", "table", 0)    \* the plain object holding code -> message
ErrV(n) == V("error", "", n)         \* a generic Error; n = 1 when it carries a code
FunV(s) == V("function", s, 0)
InstV(i) == V("inst", "", i)         \* the i-th SmartError instance

\* typeof value
TypeOf(x) ==
  CASE x.t = "undefined" -> "undefined"
    [] x.t = "string" -> "string"
    [] x.t = "number" -> "number"
    [] x.t = "boolean" -> "boolean"
    [] x.t = "function" -> "function"
    [] OTHER -> "object"             \* null, arrays, plain objects, errors, instances

\* value instanceof Error
InstanceOfError(x) == x.t \in {"error", "inst"}

\* if (x): the truthiness of a value
Truthy(x) ==
  CASE x.t \in {"undefined", "null"} -> FALSE
    [] x.t = "boolean" -> x.n = 1
    [] x.t = "number" -> x.n # 0
    [] x.t = "string" -> x.s # ""
    [] OTHER -> TRUE

\* The null test written as a truthiness test: if (x).
NotNullishAsTruthy(x) == Truthy(x)

\* x != null
NotNullish(x) == x.t \notin {"undefined", "null"}

\* The string a value becomes when used as a property key or in a template.
ToPropertyKey(x) ==
  CASE x.t = "string" -> x.s
    [] x.t = "undefined" -> "undefined"
    [] x.t = "null" -> "null"
    [] x.t = "number" -> IF x.n = 0 THEN "0" ELSE IF x.n = 3 THEN "3" ELSE "42"
    [] x.t = "boolean" -> IF x.n = 1 THEN "true" ELSE "false"
    [] x.t = "array" -> ""
    [] x.t = "error" -> "Error: boom"
    [] OTHER -> "[object Object]"

\* Fields of the generic (non-SmartError) Error values.
GenericCode(x) == IF x.n = 1 THEN StrV("ENOENT") ELSE Undef
GenericMessage(x) == StrV("boom")
GenericStack(x) == StrV("Error: boom")

\* ------------------------------------------------------------------ inputs
Keys == {"X", "Y", "Z", "name", "length", "SmartError"}
Msgs == {"m1", "m2"}
\* The code -> message objects handed to create.
CodeTables ==
  { [k \in ks |-> "m1"] :
      ks \in {{}, {"X"}, {"X", "Y"}, {"X", "name"}, {"Y", "length"}, {"X", "SmartError"}} }
NameArgs == {Undef, Null, StrV("MyError"), NumV(42), ArrV, V("object", "", 0)}
ErrorsArgs == {Undef, Null, StrV("foo"), ArrV, TableV}
Codes == {"X", "Y", "Bogus"}         \* codes given to the constructor directly
MutKeys == {"X", "Z"}                \* keys written or deleted after create
Callers == {"main"}

VARIABLES
  variant,   \* the outcome of the create call: the SmartError class or the throw
  errors,    \* the errors object passed to create (shared, mutable by the caller)
  insts,     \* the heap of SmartError instances: each one's _props
  writes,    \* number of writes made to the errors object after create
  assigns,   \* number of assignments made to fields of an instance's _props
  last       \* the last operation performed and how it ended

vars == <<variant, errors, insts, writes, assigns, last>>

\* The record of the last operation: what was called, on or yielding which
\* instance, how it ended, and the arguments of a constructor or helper call.
Last(op, target, outcome) ==
  [op |-> op, target |-> target, outcome |-> outcome, key |-> "",
   metadata |-> Undef, cause |-> Undef]
LastCall(op, target, outcome, key, metadata, cause) ==
  [op |-> op, target |-> target, outcome |-> outcome, key |-> key,
   metadata |-> metadata, cause |-> cause]

\* --------------------------------------------------------------- create()
\* assert(name, value, type): the TypeError it throws, if any.
assert(name, value, type) ==
  LET typeOfValue == TypeOf(value) IN
  IF typeOfValue # type
    THEN [thrown |-> TRUE, origin |-> "assert", param |-> name, expected |-> type,
          gotType |-> typeOfValue, gotValue |-> ToPropertyKey(value)]
    ELSE [thrown |-> FALSE]

\* Own properties a function object has before the helpers are attached, and
\* whether an assignment to them takes effect (name and length are read-only,
\* so SmartError[err] = ... is silently dropped for them).
FunctionOwnProps == {"name", "length"}
StaticWritable(k) == k \notin FunctionOwnProps

\* Instance properties defined on SmartError.prototype with configurable: false.
PredName(k) == <<"is", k>>
PrototypeProps ==
  {<<"", "name">>, <<"", "code">>, <<"", "message">>, <<"", "metadata">>,
   <<"", "cause">>, <<"", "stack">>, <<"is", "SmartError">>}

\* Object.keys(errors)
ObjectKeys(errorsArg, tbl) == IF errorsArg = TableV THEN DOMAIN tbl ELSE {}

NoVariant == [status |-> "none", args |-> <<Undef, Undef>>, name |-> "", keys |-> {},
              creators |-> {}, preds |-> {}, error |-> [thrown |-> FALSE]]

\* The value create(name, errors) produces: the class, or the error thrown.
CreateResult(nameArg, errorsArg, tbl) ==
  LET a1 == assert("name", nameArg, "string")
      a2 == assert("errors", errorsArg, "object")
      keys == ObjectKeys(errorsArg, tbl)
      base == [NoVariant EXCEPT !.args = <<nameArg, errorsArg>>, !.keys = keys]
  IN  IF a1.thrown THEN [base EXCEPT !.status = "threw", !.error = a1]
      ELSE IF a2.thrown THEN [base EXCEPT !.status = "threw", !.error = a2]
      ELSE IF errorsArg = Null
        THEN [base EXCEPT !.status = "threw",
                !.error = [thrown |-> TRUE, origin |-> "Object.keys", param |-> "",
                           expected |-> "", gotType |-> "", gotValue |-> ""]]
      ELSE IF \E k \in keys : PredName(k) \in PrototypeProps
        THEN [base EXCEPT !.status = "threw",
                !.error = [thrown |-> TRUE, origin |-> "Object.defineProperty",
                           param |-> "", expected |-> "", gotType |-> "",
                           gotValue |-> ""]]
      ELSE [base EXCEPT !.status = "returned", !.name = nameArg.s,
              !.creators = {k \in keys : StaticWritable(k)}, !.preds = keys]

\* ------------------------------------------------- the SmartError class
\* Error.captureStackTrace(target, stackFrame): the frames of the call stack
\* (innermost first) below the topmost call of stackFrame, as the stack text:
\* its first frame and its number of frames.
RECURSIVE FramesBelow(_, _)
FramesBelow(callStack, stackFrame) ==
  IF callStack = <<>> THEN <<>>
  ELSE IF Head(callStack) = stackFrame THEN Tail(callStack)
  ELSE FramesBelow(Tail(callStack), stackFrame)

captureStackTrace(callStack, stackFrame) ==
  LET frames == FramesBelow(callStack, stackFrame)
  IN  V("string", IF frames = <<>> THEN "" ELSE Head(frames), Len(frames))

\* The constructor without the metadata-is-an-Error reinterpretation.
SmartErrorNoSwap(code, metadata, cause, stackFrame, callStack) ==
  [code |-> code, metadata |-> metadata, cause |-> cause,
   stack |-> captureStackTrace(callStack, stackFrame)]

\* The constructor normalising a falsy cause to undefined (cause || undefined).
SmartErrorFalsyCause(code, metadata, cause, stackFrame, callStack) ==
  LET isErr == InstanceOfError(metadata)
      cause2 == IF isErr THEN metadata ELSE IF Truthy(cause) THEN cause ELSE Undef
      metadata2 == IF isErr THEN Undef ELSE metadata
  IN  [code |-> code, metadata |-> metadata2, cause |-> cause2,
       stack |-> captureStackTrace(callStack, stackFrame)]

\* function SmartError (code, metadata, cause, stackFrame): the _props of the
\* instance it initialises; callStack is the stack at the captureStackTrace call.
SmartError(code, metadata, cause, stackFrame, callStack) ==
  LET isErr == InstanceOfError(metadata)
      cause2 == IF isErr THEN metadata ELSE cause
      metadata2 == IF isErr THEN Undef ELSE metadata
  IN  [code |-> code, metadata |-> metadata2, cause |-> cause2,
       stack |-> captureStackTrace(callStack, stackFrame)]

\* Helpers resolved against the live errors table instead of the keys at create.
StaticPropLive(k) ==
  IF k \in DOMAIN errors /\ StaticWritable(k) THEN FunV(k)
  ELSE IF k = "name" THEN StrV("SmartError")
  ELSE IF k = "length" THEN NumV(3)
  ELSE Undef

\* SmartError[k] as read by a caller of the returned class.
StaticProp(k) ==
  IF k \in variant.creators THEN FunV(k)
  ELSE IF k = "name" THEN StrV("SmartError")
  ELSE IF k = "length" THEN NumV(3)
  ELSE Undef

\* errors[key]
Lookup(tbl, key) == IF key \in DOMAIN tbl THEN StrV(tbl[key]) ELSE Undef

\* The getters of SmartError.prototype, applied to the _props p of an instance.
GetName(p) == StrV(variant.name)
GetCode(p) == p.code
\* The message taken from a copy of the table made when create was called.
GetMessageSnapshot(p) ==
  IF ToPropertyKey(p.code) \in variant.keys THEN StrV("m1") ELSE Undef
GetMessage(p) == Lookup(errors, ToPropertyKey(p.code))
GetMetadata(p) == p.metadata
GetCause(p) == p.cause
GetStack(p) == p.stack
\* Every is${k} getter closing over the same (last) key.
GetIsSharedKey(p, k) ==
  IF k \in variant.preds
    THEN BoolV(p.code = StrV(CHOOSE j \in variant.preds : TRUE))
    ELSE Undef
\* the getter is${k}: undefined when no such property was defined
GetIs(p, k) == IF k \in variant.preds THEN BoolV(p.code = StrV(k)) ELSE Undef

\* value.isSmartError, for any value
GetIsSmartError(x) == IF x.t = "inst" THEN BoolV(TRUE) ELSE Undef

\* JSON structures: a leaf value, an object (its fields in insertion order), or
\* the RangeError of a toJSON call that never returns (a cyclic cause chain).
JVal(x) == [kind |-> "value", val |-> x, fields |-> <<>>]
JObj(fields) == [kind |-> "object", val |-> Undef, fields |-> fields]
JThrow == [kind |-> "RangeError", val |-> Undef, fields |-> <<>>]
Field(k, node) == [key |-> k, value |-> node]

\* toJSON testing `cause instanceof Error` before `cause.isSmartError`.
RECURSIVE toJSONErrorFirst(_, _, _)
toJSONErrorFirst(h, i, seen) ==
  LET p == h[i]
      cause == p.cause
      r0 == <<Field("name", JVal(StrV(variant.name))), Field("code", JVal(p.code))>>
      r1 == IF NotNullish(p.metadata)
              THEN Append(r0, Field("metadata", JVal(p.metadata))) ELSE r0
      causeNode ==
        IF cause.t = "inst"
          THEN JObj(<<Field("code", JVal(h[cause.n].code)),
                      Field("message", JVal(GetMessage(h[cause.n]))),
                      Field("stack", JVal(h[cause.n].stack))>>)
        ELSE IF cause.t = "error"
          THEN JObj(<<Field("code", JVal(GenericCode(cause))),
                      Field("message", JVal(GenericMessage(cause))),
                      Field("stack", JVal(GenericStack(cause)))>>)
        ELSE JVal(cause)
      r2 == IF NotNullish(cause) THEN Append(r1, Field("cause", causeNode)) ELSE r1
  IN  JObj(Append(r2, Field("stack", JVal(p.stack))))

\* SmartError.prototype.toJSON on instance i of heap h; seen are the instances
\* whose toJSON call is still on the stack.
RECURSIVE toJSONRec(_, _, _)
toJSONRec(h, i, seen) ==
  IF i \in seen THEN JThrow
  ELSE
    LET p == h[i]
        code == p.code
        metadata == p.metadata
        cause == p.cause
        stack == p.stack
        r0 == <<Field("name", JVal(StrV(variant.name))), Field("code", JVal(code))>>
        r1 == IF NotNullish(metadata)
                THEN Append(r0, Field("metadata", JVal(metadata))) ELSE r0
        causeNode ==
          IF Truthy(GetIsSmartError(cause))
            THEN toJSONRec(h, cause.n, seen \cup {i})
          ELSE IF InstanceOfError(cause)
            THEN JObj(<<Field("code", JVal(GenericCode(cause))),
                        Field("message", JVal(GenericMessage(cause))),
                        Field("stack", JVal(GenericStack(cause)))>>)
          ELSE JVal(cause)
        r2 == IF NotNullish(cause) THEN Append(r1, Field("cause", causeNode)) ELSE r1
    IN  IF NotNullish(cause) /\ causeNode.kind = "RangeError" THEN JThrow
        ELSE JObj(Append(r2, Field("stack", JVal(stack))))

toJSON(i) == toJSONRec(insts, i, {})

\* SmartError.prototype.toString: `${this.name}: ${this.message}`
toString(i) ==
  <<ToPropertyKey(GetName(insts[i])), ": ", ToPropertyKey(GetMessage(insts[i]))>>

\* SmartError.prototype.toDetailedString
toDetailedString(i) == GetStack(insts[i])

\* ----------------------------------------------------------------- actions
Refs == {InstV(i) : i \in 1..Len(insts)}
HelperVals == {Undef, StrV("foo"), ErrV(0)} \cup Refs
MetaVals == {Undef, Null, NumV(0), ErrV(0)} \cup Refs
CauseVals == {Undef, Null, StrV(""), BoolV(FALSE), ErrV(0), ErrV(1)} \cup Refs
AssignVals == {StrV("Y")} \cup Refs
GetterFields == {"name", "code", "message", "metadata", "cause", "stack", "isSmartError"}
PropsFields == {"code", "metadata", "cause", "stack"}

Init ==
  /\ variant = NoVariant
  /\ errors = [k \in {} |-> "m1"]
  /\ insts = <<>>
  /\ writes = 0
  /\ assigns = 0
  /\ last = Last("init", 0, "ok")

Create(nameArg, errorsArg, tbl) ==
  /\ variant.status = "none"
  /\ variant' = CreateResult(nameArg, errorsArg, tbl)
  /\ errors' = IF errorsArg = TableV THEN tbl ELSE errors
  /\ last' = Last("create", 0, IF variant'.status = "threw" THEN "TypeError" ELSE "ok")
  /\ UNCHANGED <<insts, writes, assigns>>

\* new SmartError(code, metadata, cause), called by caller
Construct(code, metadata, cause, caller) ==
  /\ variant.status = "returned"
  /\ Len(insts) < MaxInstances
  /\ insts' = Append(insts,
       SmartError(StrV(code), metadata, cause, "SmartError", <<"SmartError", caller>>))
  /\ last' = LastCall("new", Len(insts) + 1, "ok", code, metadata, cause)
  /\ UNCHANGED <<variant, errors, writes, assigns>>

\* SmartError[k](metadata, cause), called by caller
CallHelper(k, metadata, cause, caller) ==
  /\ variant.status = "returned"
  /\ Len(insts) < MaxInstances
  /\ k \in variant.keys \cup DOMAIN errors
  /\ IF TypeOf(StaticProp(k)) = "function"
       THEN /\ insts' = Append(insts,
                 SmartError(StrV(k), metadata, cause, k, <<"SmartError", k, caller>>))
            /\ last' = LastCall("helper", Len(insts) + 1, "ok", k, metadata, cause)
       ELSE /\ insts' = insts
            /\ last' = LastCall("helper", 0, "TypeError", k, metadata, cause)
  /\ UNCHANGED <<variant, errors, writes, assigns>>

\* errors[k] = msg, by the owner of the object passed to create
SetEntry(k, msg) ==
  /\ variant.status = "returned"
  /\ variant.args[2] = TableV
  /\ writes < MaxTableWrites
  /\ errors' = [x \in DOMAIN errors \cup {k} |-> IF x = k THEN msg ELSE errors[x]]
  /\ writes' = writes + 1
  /\ last' = Last("set", 0, "ok")
  /\ UNCHANGED <<variant, insts, assigns>>

\* delete errors[k]
DeleteEntry(k) ==
  /\ variant.status = "returned"
  /\ variant.args[2] = TableV
  /\ writes < MaxTableWrites
  /\ k \in DOMAIN errors
  /\ errors' = [x \in DOMAIN errors \ {k} |-> errors[x]]
  /\ writes' = writes + 1
  /\ last' = Last("delete", 0, "ok")
  /\ UNCHANGED <<variant, insts, assigns>>

\* instance.<field> = v: every field is a getter without a setter, and _props
\* is not writable, so nothing changes (a strict-mode caller gets a TypeError).
AssignGetter(i, field, v, strict) ==
  /\ i \in 1..Len(insts)
  /\ field \in GetterFields \cup {"_props"}
  /\ last' = Last("assign", i, IF strict THEN "TypeError" ELSE "ignored")
  /\ UNCHANGED <<variant, errors, insts, writes, assigns>>

\* instance._props.<field> = v: _props is an ordinary, unfrozen object
AssignProps(i, field, v) ==
  /\ i \in 1..Len(insts)
  /\ field \in PropsFields
  /\ assigns < MaxAssigns
  /\ insts' = [insts EXCEPT ![i] = [@ EXCEPT ![field] = v]]
  /\ assigns' = assigns + 1
  /\ last' = Last("assign_props", i, "ok")
  /\ UNCHANGED <<variant, errors, writes>>

CallToJSON(i) ==
  /\ i \in 1..Len(insts)
  /\ last' = Last("toJSON", i, IF toJSON(i).kind = "RangeError" THEN "RangeError" ELSE "ok")
  /\ UNCHANGED <<variant, errors, insts, writes, assigns>>

CallToString(i) ==
  /\ i \in 1..Len(insts)
  /\ last' = Last("toString", i, "ok")
  /\ UNCHANGED <<variant, errors, insts, writes, assigns>>

CallToDetailedString(i) ==
  /\ i \in 1..Len(insts)
  /\ last' = Last("toDetailedString", i, "ok")
  /\ UNCHANGED <<variant, errors, insts, writes, assigns>>

\* The factory, the static helpers and the shared errors table.
Next ==
  \/ \E nameArg \in NameArgs, errorsArg \in ErrorsArgs, tbl \in CodeTables :
       Create(nameArg, errorsArg, tbl)
  \/ \E k \in Keys, m \in HelperVals, caller \in Callers : CallHelper(k, m, Undef, caller)
  \/ \E code \in Codes, caller \in Callers : Construct(code, Undef, Undef, caller)
  \/ \E k \in MutKeys, msg \in Msgs : SetEntry(k, msg)
  \/ \E k \in MutKeys : DeleteEntry(k)
  \/ \E i \in 1..MaxInstances : CallToString(i)

Spec == Init /\ [][Next]_vars

\* Instances of the class create('MyError', {X: 'm1', Y: 'm1'}) returned.
InitInst ==
  /\ variant = CreateResult(StrV("MyError"), TableV, [k \in {"X", "Y"} |-> "m1"])
  /\ errors = [k \in {"X", "Y"} |-> "m1"]
  /\ insts = <<>>
  /\ writes = 0
  /\ assigns = 0
  /\ last = Last("create", 0, "ok")

\* Construction and serialisation.
NextInst ==
  \/ \E m \in MetaVals, c \in CauseVals, caller \in Callers : Construct("Bogus", m, c, caller)
  \/ \E m \in MetaVals, c \in CauseVals, caller \in Callers : CallHelper("X", m, c, caller)
  \/ \E i \in 1..MaxInstances : CallToJSON(i)

SpecInst == InitInst /\ [][NextInst]_vars

\* Everything a holder of an instance can do to it.
NextMut ==
  \/ \E m \in {Undef, StrV("foo")}, c \in {Undef} \cup Refs, caller \in Callers :
       CallHelper("X", m, c, caller)
  \/ \E i \in 1..MaxInstances, f \in GetterFields \cup {"_props"}, v \in AssignVals,
        strict \in BOOLEAN : AssignGetter(i, f, v, strict)
  \/ \E i \in 1..MaxInstances, f \in PropsFields, v \in AssignVals : AssignProps(i, f, v)
  \/ \E i \in 1..MaxInstances : CallToJSON(i)
  \/ \E i \in 1..MaxInstances : CallToString(i)
  \/ \E i \in 1..MaxInstances : CallToDetailedString(i)

SpecMut == InitInst /\ [][NextMut]_vars
\* ------------------------------------------------------------ properties
\* The instance the last constructor or helper call returned.
Made == last.op \in {"new", "helper"} /\ last.outcome = "ok"
Returned == insts[last.target]
HasHelper(k) == TypeOf(StaticProp(k)) = "function"
PredDefined(k) == GetIs([code |-> StrV(k)], k) # Undef
\* The value of a field of a JSON object, and its keys in order.
JAbsent == [kind |-> "absent", val |-> Undef, fields |-> <<>>]
JGet(node, key) ==
  LET at == {n \in 1..Len(node.fields) : node.fields[n].key = key}
  IN  IF at = {} THEN JAbsent ELSE node.fields[CHOOSE n \in at : TRUE].value
JKeys(node) == [n \in 1..Len(node.fields) |-> node.fields[n].key]

\* C1 (as stated): whenever create is called with a string name and an object
\* of codes, it returns a class on which every key of the object is a callable
\* helper, and every call of such a helper returns an instance.
C1_HelperForEveryKey ==
  /\ (variant.status # "none" /\ TypeOf(variant.args[1]) = "string"
        /\ variant.args[2] \in {TableV, ArrV})
       => /\ variant.status = "returned"
          /\ \A k \in variant.keys : HasHelper(k)
  /\ (last.op = "helper" /\ last.key \in variant.keys)
       => (last.outcome = "ok" /\ last.target \in 1..Len(insts))

\* C2 (as stated): the instance T.K(m) has code K, metadata m whatever m is,
\* message codes[K], isK true and isJ false for every other declared code J.
C2_MetadataAlwaysKept ==
  (last.op = "helper" /\ last.outcome = "ok") =>
    /\ GetCode(Returned) = StrV(last.key)
    /\ GetMetadata(Returned) = last.metadata
    /\ GetMessage(Returned) = Lookup(errors, last.key)
    /\ GetIs(Returned, last.key) = BoolV(TRUE)
    /\ \A j \in variant.keys \ {last.key} : GetIs(Returned, j) = BoolV(FALSE)

\* C2 (amended): the instance T.K(m) has code K, message codes[K], isK true and
\* isJ false for every other declared code J; its metadata is m when m is not
\* an Error, and undefined (with m as its cause) when m is an Error.
C2_HelperInstance ==
  (last.op = "helper" /\ last.outcome = "ok") =>
    /\ GetCode(Returned) = StrV(last.key)
    /\ IF last.metadata.t \in {"error", "inst"}
         THEN GetMetadata(Returned) = Undef /\ GetCause(Returned) = last.metadata
         ELSE GetMetadata(Returned) = last.metadata
    /\ GetMessage(Returned) =
         (IF last.key \in DOMAIN errors THEN StrV(errors[last.key]) ELSE Undef)
    /\ GetIs(Returned, last.key) = BoolV(TRUE)
    /\ \A j \in variant.keys \ {last.key} : GetIs(Returned, j) = BoolV(FALSE)
C2_Witness ==
  /\ last.op = "helper" /\ last.outcome = "ok" /\ last.key = "Y"
  /\ last.metadata = StrV("foo") /\ "X" \in variant.keys
  /\ GetMetadata(Returned) = StrV("foo")

\* C3 (as stated): a create call whose name is not a string, or whose codes are
\* missing, null or not an object, throws the assert error naming the
\* offending parameter, the expected type and the type and value received.
C3_InvalidArgumentNamesParameter ==
  LET nameArg == variant.args[1]
      errorsArg == variant.args[2]
      badName == TypeOf(nameArg) # "string"
      badErrors == errorsArg \notin {TableV, ArrV}
      param == IF badName THEN "name" ELSE "errors"
      value == IF badName THEN nameArg ELSE errorsArg
  IN  (variant.status # "none" /\ (badName \/ badErrors)) =>
        /\ variant.status = "threw"
        /\ variant.error.thrown
        /\ variant.error.origin = "assert"
        /\ variant.error.param = param
        /\ variant.error.expected = (IF badName THEN "string" ELSE "object")
        /\ variant.error.gotType = TypeOf(value)
        /\ variant.error.gotValue = ToPropertyKey(value)

\* C4: after a constructor or helper call whose second argument is an Error,
\* the instance's cause is that argument and its metadata is undefined;
\* otherwise its metadata is the second and its cause the third argument.
C4_ErrorMetadataBecomesCause ==
  Made =>
    IF last.metadata.t \in {"error", "inst"}
      THEN GetCause(Returned) = last.metadata /\ GetMetadata(Returned) = Undef
      ELSE GetMetadata(Returned) = last.metadata /\ GetCause(Returned) = last.cause
C4_Witness ==
  /\ Made /\ last.op = "helper" /\ last.metadata = ErrV(0) /\ last.cause = StrV("")
  /\ GetCause(Returned) = ErrV(0) /\ GetMetadata(Returned) = Undef

\* C5 (as stated): whenever a cause argument is passed to the constructor or a
\* helper, the instance's cause is that argument, whatever the metadata is.
C5_PassedCauseAlwaysKept ==
  (Made /\ last.cause # Undef) => GetCause(Returned) = last.cause

\* C5 (amended): when a cause argument is passed and the metadata argument is
\* not an Error, the instance's cause is exactly that argument; when the
\* metadata argument is an Error, the cause is the metadata argument instead;
\* and no toJSON call changes the cause of any instance.
C5_CauseKeptUnlessErrorMetadata ==
  [][/\ (last'.op \in {"new", "helper"} /\ last'.outcome = "ok" /\ last'.cause # Undef)
          => GetCause(insts'[last'.target]) =
               (IF last'.metadata.t \in {"error", "inst"}
                  THEN last'.metadata ELSE last'.cause)
     /\ last'.op = "toJSON"
          => \A i \in 1..Len(insts) : GetCause(insts'[i]) = GetCause(insts[i])]_vars
C5_Witness ==
  /\ last.op = "toJSON" /\ last.outcome = "ok"
  /\ GetCause(Returned) = BoolV(FALSE)
  /\ \E i \in 1..Len(insts) : insts[i].cause = ErrV(0) /\ insts[i].metadata = Undef

\* C6: the cause field of A.toJSON(), for a non-null cause c, is c.toJSON()
\* when c is a SmartError instance, {code, message, stack} of c when c is
\* another Error (code as present on c), and c itself otherwise.
C6_CauseSerialisedByKind ==
  \A i \in 1..Len(insts) :
    LET c == insts[i].cause IN
    c.t \notin {"undefined", "null"} =>
      JGet(toJSON(i), "cause") =
        (CASE c.t = "inst" -> toJSON(c.n)
           [] c.t = "error" ->
                JObj(<<Field("code", JVal(IF c.n = 1 THEN StrV("ENOENT") ELSE Undef)),
                       Field("message", JVal(StrV("boom"))),
                       Field("stack", JVal(StrV("Error: boom")))>>)
           [] OTHER -> JVal(c))
C6_Witness ==
  /\ last.op = "toJSON" /\ last.outcome = "ok"
  /\ Returned.cause.t = "inst"
  /\ insts[Returned.cause.n].cause = ErrV(1)
  /\ JGet(JGet(toJSON(last.target), "cause"), "name") = JVal(StrV("MyError"))

\* C7: toJSON() yields exactly name, code, then metadata iff the metadata is
\* neither null nor undefined, then cause iff the cause is neither null nor
\* undefined, then stack; 0, '' and false are kept.
C7_FieldsOfToJSON ==
  \A i \in 1..Len(insts) :
    LET p == insts[i]
        j == toJSON(i)
        hasM == p.metadata.t \notin {"undefined", "null"}
        hasC == p.cause.t \notin {"undefined", "null"}
    IN  /\ j.kind = "object"
        /\ JKeys(j) = <<"name", "code">> \o (IF hasM THEN <<"metadata">> ELSE <<>>)
                        \o (IF hasC THEN <<"cause">> ELSE <<>>) \o <<"stack">>
        /\ JGet(j, "name") = JVal(StrV(variant.name))
        /\ JGet(j, "code") = JVal(p.code)
        /\ hasM => JGet(j, "metadata") = JVal(p.metadata)
        /\ JGet(j, "stack") = JVal(p.stack)
C7_Witness ==
  /\ last.op = "toJSON" /\ last.outcome = "ok"
  /\ Returned.metadata = NumV(0) /\ Returned.cause = BoolV(FALSE)
  /\ JKeys(toJSON(last.target)) = <<"name", "code", "metadata", "cause", "stack">>

\* C8: in every state, the message of every instance is the current entry of
\* the errors table for the instance's code (undefined when there is none),
\* and toString() is the name, ': ' and that message.
C8_MessageIsCurrentEntry ==
  \A i \in 1..Len(insts) :
    LET key == insts[i].code.s
        entry == IF key \in DOMAIN errors THEN errors[key] ELSE "undefined"
    IN  /\ GetMessage(insts[i]) = (IF key \in DOMAIN errors THEN StrV(errors[key]) ELSE Undef)
        /\ toString(i) = <<variant.name, ": ", entry>>
C8_Witness ==
  /\ last.op = "toString" /\ Returned.code = StrV("X")
  /\ "X" \in DOMAIN errors /\ errors["X"] = "m2"
  /\ toString(last.target) = <<"MyError", ": ", "m2">>

\* C9 (as stated): no operation available on an instance -- reading, assigning
\* to a field or to a field of its property bag, toJSON, toString,
\* toDetailedString -- changes its code, metadata, cause or stack.
C9_InstancesNeverChange ==
  [][\A i \in 1..Len(insts) :
       /\ GetCode(insts'[i]) = GetCode(insts[i])
       /\ GetMetadata(insts'[i]) = GetMetadata(insts[i])
       /\ GetCause(insts'[i]) = GetCause(insts[i])
       /\ GetStack(insts'[i]) = GetStack(insts[i])]_vars

\* C10: once create has returned, no step (in particular no write to or delete
\* from the errors table) adds or removes a helper or an is<Code> getter, and a
\* helper whose key is gone from the table still returns an instance, whose
\* message is undefined.
C10_HelpersFixedAtCreate ==
  [][variant.status = "returned" =>
       /\ \A k \in Keys : /\ (HasHelper(k))' = HasHelper(k)
                          /\ (PredDefined(k))' = PredDefined(k)
       /\ (last'.op = "helper" /\ last'.outcome = "ok" /\ last'.key \notin DOMAIN errors')
            => (GetMessage(insts[last.target]))' = Undef]_vars
C10_Witness ==
  /\ last.op = "helper" /\ last.outcome = "ok"
  /\ last.key \notin DOMAIN errors
  /\ GetMessage(Returned) = Undef
  /\ "Z" \in DOMAIN errors /\ ~HasHelper("Z")
====
